---- MODULE Spec2Model ----
(***************************************************************************)
(* BitTorrent::TrackerEntry (src/base/bittorrent/trackerentry.cpp): the    *)
(* reduction of the per-endpoint announce state of one tracker to one      *)
(* status, one message list and one set of swarm counters, together with   *)
(* equality and hashing of entries.                                        *)
(*                                                                         *)
(* A QString / std::string is a sequence of one-character strings.  A      *)
(* 32-bit unsigned value is a pair <<high 16 bits, low 16 bits>>.          *)
(***************************************************************************)
EXTENDS Integers, Sequences, FiniteSets, TLC

VARIABLES
    m_nativeEntry,  \* the lt::announce_entry held by the TrackerEntry under call
    rhs,            \* the lt::announce_entry of a second TrackerEntry (right operand)
    ret             \* the last call made on the entry and the value it returned

vars == <<m_nativeEntry, rhs, ret>>

(* Bounds of the model. *)
MaxEndpoints == 3
MaxTier == 1

Tiers == 0..MaxTier

(***************************************************************************)
(* QString.                                                                *)
(***************************************************************************)
isSpace(c) == c \in {" ", "\t", "\n"}

RECURSIVE trimLeft(_)
trimLeft(s) == IF Len(s) > 0 /\ isSpace(Head(s)) THEN trimLeft(Tail(s)) ELSE s

RECURSIVE trimRight(_)
trimRight(s) ==
    IF Len(s) > 0 /\ isSpace(s[Len(s)])
    THEN trimRight(SubSeq(s, 1, Len(s) - 1))
    ELSE s

(* QString::trimmed(): whitespace removed from the start and the end. *)
trimmed(s) == trimRight(trimLeft(s))

(* QStringList::contains(). *)
contains(list, s) == \E i \in 1..Len(list) : list[i] = s

(***************************************************************************)
(* TrackerEntry::Endpoint                                                  *)
(***************************************************************************)
(* lt::announce_endpoint::is_working(): no failed announce in a row. *)
is_working(e) == e.fails = 0

Endpoint_status_swapped(e) ==
    IF ~is_working(e) THEN "NotWorking"
    ELSE IF e.updating THEN "Updating"
    ELSE "Working"

Endpoint_status(e) ==
    IF e.updating THEN "Updating"
    ELSE IF ~is_working(e) THEN "NotWorking"
    ELSE "Working"

(* TrackerEntry::endpoints(): the views over the native endpoints, in order. *)
endpoints(entry) ==
    [i \in 1..Len(entry.endpoints) |-> entry.endpoints[i]]

(***************************************************************************)
(* TrackerEntry::status()                                                  *)
(***************************************************************************)
(* The loop of status() from endpoint i on, numFailed failures counted so far. *)
RECURSIVE statusScan(_, _, _, _)
statusScan(verified, endpointsList, i, numFailed) ==
    IF i > Len(endpointsList)
    THEN IF (numFailed = Len(endpointsList)) /\ (numFailed # 0)
         THEN "NotWorking"
         ELSE "NotContacted"
    ELSE LET st == Endpoint_status(endpointsList[i]) IN
         IF st = "Updating" THEN st
         ELSE IF st = "NotWorking"
              THEN statusScan(verified, endpointsList, i + 1, numFailed + 1)
         ELSE IF ~verified
              THEN statusScan(verified, endpointsList, i + 1, numFailed)
         ELSE IF st = "Working" THEN st
         ELSE statusScan(verified, endpointsList, i + 1, numFailed)

status_negatedVerified(entry) ==
    statusScan(~entry.verified, endpoints(entry), 1, 0)

status_ignoresVerified(entry) ==
    statusScan(TRUE, endpoints(entry), 1, 0)

status(entry) ==
    statusScan(entry.verified, endpoints(entry), 1, 0)

(***************************************************************************)
(* TrackerEntry::messages()                                                *)
(***************************************************************************)
addMessage_untrimmedDedup(list, msg) ==
    IF Len(msg) > 0 /\ ~contains(list, msg)
    THEN Append(list, trimmed(msg))
    ELSE list

(* The addMessage lambda: the list after msg is offered to it. *)
addMessage(list, msg) ==
    LET message == trimmed(msg) IN
    IF Len(message) > 0 /\ ~contains(list, message)
    THEN Append(list, message)
    ELSE list

(* One "for (endpoint : endpoints) addMessage(...)" loop, from text i on. *)
RECURSIVE addMessages(_, _, _)
addMessages(list, texts, i) ==
    IF i > Len(texts)
    THEN list
    ELSE addMessages(addMessage(list, texts[i]), texts, i + 1)

messageTexts(entry) ==
    [i \in 1..Len(entry.endpoints) |-> entry.endpoints[i].message]

(* endpoint.last_error.message() of every endpoint, in order. *)
lastErrorTexts(entry) ==
    [i \in 1..Len(entry.endpoints) |-> entry.endpoints[i].last_error]

messages_noStatusCheck(entry) ==
    LET list == addMessages(<<>>, messageTexts(entry), 1) IN
    IF Len(list) = 0
    THEN addMessages(list, lastErrorTexts(entry), 1)
    ELSE list

messages(entry) ==
    LET list == addMessages(<<>>, messageTexts(entry), 1) IN
    IF Len(list) = 0 /\ status(entry) = "NotWorking"
    THEN addMessages(list, lastErrorTexts(entry), 1)
    ELSE list

(***************************************************************************)
(* TrackerEntry::numSeeds() / numLeeches() / numDownloaded()               *)
(***************************************************************************)
max(a, b) == IF a < b THEN b ELSE a

(* "for (endpoint : endpoints()) value = std::max(value, ...)" from i on. *)
RECURSIVE maxLoop(_, _, _)
maxLoop(value, counts, i) ==
    IF i > Len(counts)
    THEN value
    ELSE maxLoop(max(value, counts[i]), counts, i + 1)

numSeeds(entry) ==
    maxLoop(-1, [i \in 1..Len(entry.endpoints) |->
                    endpoints(entry)[i].scrape_complete], 1)

numLeeches_copyPaste(entry) ==
    maxLoop(-1, [i \in 1..Len(entry.endpoints) |->
                    endpoints(entry)[i].scrape_complete], 1)

numLeeches(entry) ==
    maxLoop(-1, [i \in 1..Len(entry.endpoints) |->
                    endpoints(entry)[i].scrape_incomplete], 1)

numDownloaded(entry) ==
    maxLoop(-1, [i \in 1..Len(entry.endpoints) |->
                    endpoints(entry)[i].scrape_downloaded], 1)

(***************************************************************************)
(* url(), tier(), setTier()                                                *)
(***************************************************************************)
url(entry) == entry.url

tier(entry) == entry.tier

setTier_rebuild(entry, value) ==
    [url |-> entry.url, tier |-> value, verified |-> FALSE, endpoints |-> <<>>]

setTier(entry, value) == [entry EXCEPT !.tier = value]

(***************************************************************************)
(* operator== and qHash                                                    *)
(***************************************************************************)
(* QChar::toLower() on the letters of the model's URLs. *)
toLower(c) ==
    CASE c = "H" -> "h"
      [] c = "A" -> "a"
      [] c = "P" -> "p"
      [] OTHER -> c

(* QChar::unicode(). *)
unicode(c) ==
    CASE c = "h" -> 104
      [] c = "H" -> 72
      [] c = "a" -> 97
      [] c = "A" -> 65
      [] c = "b" -> 98
      [] c = "p" -> 112
      [] c = "P" -> 80
      [] c = ":" -> 58
      [] c = "/" -> 47

(* The first index >= from at which s holds c, or 0. *)
RECURSIVE indexOf(_, _, _)
indexOf(s, c, from) ==
    IF from > Len(s) THEN 0
    ELSE IF s[from] = c THEN from
    ELSE indexOf(s, c, from + 1)

(* QUrl(string) of a "scheme://host/path" string: QUrl keeps the scheme and *)
(* the host in lower case and the path as written.                         *)
QUrl(s) ==
    LET colon == indexOf(s, ":", 1)
        slash == indexOf(s, "/", colon + 3)
    IN  [scheme |-> [i \in 1..(colon - 1) |-> toLower(s[i])],
         host   |-> [i \in 1..(slash - colon - 3) |-> toLower(s[colon + 2 + i])],
         path   |-> SubSeq(s, slash, Len(s))]

operatorEq(left, right) ==
    (tier(left) = tier(right)) /\ (QUrl(url(left)) = QUrl(url(right)))

(* h = 31 * h + ch on 32 bits, h being <<high half, low half>>. *)
hashStep(h, ch) ==
    LET lo == 31 * h[2] + ch
        hi == 31 * h[1] + (lo \div (2^16))
    IN  <<hi % (2^16), lo % (2^16)>>

(* ::qHash(const QString &, uint seed): h = seed; h = 31 * h + ch for each. *)
RECURSIVE qHashString(_, _, _)
qHashString(s, i, h) ==
    IF i > Len(s) THEN h
    ELSE qHashString(s, i + 1, hashStep(h, unicode(s[i])))

(* ::qHash(int key), seed 0: uint(key) ^ 0, for a key >= 0. *)
qHashInt(key) == <<key \div (2^16), key % (2^16)>>

RECURSIVE xorBits(_, _, _)
xorBits(a, b, n) ==
    IF n = 0 THEN 0
    ELSE ((a + b) % 2) + 2 * xorBits(a \div 2, b \div 2, n - 1)

(* a ^ b on 32 bits. *)
xor(a, b) == <<xorBits(a[1], b[1], 16), xorBits(a[2], b[2], 16)>>

qHash(key, seed) ==
    xor(qHashString(url(key), 1, <<0, seed>>), qHashInt(tier(key)))
(***************************************************************************)
(* Construction.                                                           *)
(***************************************************************************)
(* An lt::announce_endpoint. *)
announce_endpoint(updating, fails, message, last_error, complete, incomplete, downloaded) ==
    [updating |-> updating, fails |-> fails,
     message |-> message, last_error |-> last_error,
     scrape_complete |-> complete, scrape_incomplete |-> incomplete,
     scrape_downloaded |-> downloaded]

(* TrackerEntry(const QString &url): a fresh lt::announce_entry. *)
TrackerEntryFromUrl(u) ==
    [url |-> u, tier |-> 0, verified |-> FALSE, endpoints |-> <<>>]

(* TrackerEntry(const lt::announce_entry &): the entries with these URLs and *)
(* endpoint states, of every tier and either verified flag.                *)
TrackerEntries(urls, endpointStates) ==
    [url : urls, tier : Tiers, verified : BOOLEAN,
     endpoints : UNION {[1..n -> endpointStates] : n \in 0..MaxEndpoints}]

makeUrl(scheme, host, path) == scheme \o <<":", "/", "/">> \o host \o <<"/">> \o path

Urls ==
    {makeUrl(<<s>>, <<h>>, <<p>>) : s \in {"h", "H"}, h \in {"a", "A", "b"}, p \in {"p", "P"}}

DefaultUrl == makeUrl(<<"h">>, <<"a">>, <<"p">>)

Seeds == {0, 1}

(* Endpoints that differ in the flags status() reads. *)
StatusEndpoints ==
    {announce_endpoint(u, f, <<>>, <<>>, -1, -1, -1) : u \in BOOLEAN, f \in {0, 1}}

(* Endpoints that differ in what messages() reads. *)
MessageEndpoints ==
    { announce_endpoint(FALSE, 1, <<>>, <<"t">>, -1, -1, -1),
      announce_endpoint(FALSE, 1, <<>>, <<"r">>, -1, -1, -1),
      announce_endpoint(FALSE, 1, <<>>, <<" ", "t">>, -1, -1, -1),
      announce_endpoint(FALSE, 1, <<" ">>, <<>>, -1, -1, -1),
      announce_endpoint(FALSE, 1, <<"m">>, <<"t">>, -1, -1, -1),
      announce_endpoint(FALSE, 0, <<" ", "m", "\n">>, <<>>, -1, -1, -1),
      announce_endpoint(FALSE, 0, <<>>, <<"t">>, -1, -1, -1),
      announce_endpoint(TRUE, 1, <<"n">>, <<"r">>, -1, -1, -1) }

(* Endpoints that differ in the scrape counters. *)
CounterEndpoints ==
    { announce_endpoint(FALSE, 0, <<>>, <<>>, c[1], c[2], c[3]) :
        c \in { <<-1, -1, -1>>, <<3, -1, -1>>, <<-1, 3, -1>>, <<-1, -1, 3>>,
                <<0, 0, 0>>, <<1, 0, 2>>, <<2, 1, 0>>, <<0, 2, 1>> } }

(* A mix of the three. *)
CoreEndpoints ==
    { announce_endpoint(FALSE, 0, <<>>, <<>>, -1, -1, -1),
      announce_endpoint(FALSE, 1, <<>>, <<"t">>, -1, -1, -1),
      announce_endpoint(TRUE, 0, <<>>, <<>>, 0, 3, -1),
      announce_endpoint(FALSE, 0, <<" ", "m">>, <<>>, 3, 0, 1),
      announce_endpoint(FALSE, 1, <<"n">>, <<"r">>, 1, -1, 0) }

InitWith(entries, others) ==
    /\ m_nativeEntry \in entries
    /\ rhs \in others
    /\ ret = [op |-> "none"]

Init == InitWith(TrackerEntries({DefaultUrl}, CoreEndpoints), {TrackerEntryFromUrl(DefaultUrl)})

InitStatus == InitWith(TrackerEntries({DefaultUrl}, StatusEndpoints), {TrackerEntryFromUrl(DefaultUrl)})

InitMessages == InitWith(TrackerEntries({DefaultUrl}, MessageEndpoints), {TrackerEntryFromUrl(DefaultUrl)})

InitCounters ==
    InitWith({e \in TrackerEntries({DefaultUrl}, CounterEndpoints) : e.verified},
             {TrackerEntryFromUrl(DefaultUrl)})

InitEq ==
    InitWith({e \in TrackerEntries(Urls, {}) : ~e.verified},
             {e \in TrackerEntries(Urls, {}) : ~e.verified})

(***************************************************************************)
(* The calls.                                                              *)
(***************************************************************************)
Url ==
    /\ ret' = [op |-> "url", value |-> url(m_nativeEntry)]
    /\ UNCHANGED <<m_nativeEntry, rhs>>

Tier ==
    /\ ret' = [op |-> "tier", value |-> tier(m_nativeEntry)]
    /\ UNCHANGED <<m_nativeEntry, rhs>>

Status ==
    /\ ret' = [op |-> "status", value |-> status(m_nativeEntry)]
    /\ UNCHANGED <<m_nativeEntry, rhs>>

Messages ==
    /\ ret' = [op |-> "messages", value |-> messages(m_nativeEntry)]
    /\ UNCHANGED <<m_nativeEntry, rhs>>

Endpoints ==
    /\ ret' = [op |-> "endpoints", value |-> endpoints(m_nativeEntry)]
    /\ UNCHANGED <<m_nativeEntry, rhs>>

NumSeeds ==
    /\ ret' = [op |-> "numSeeds", value |-> numSeeds(m_nativeEntry)]
    /\ UNCHANGED <<m_nativeEntry, rhs>>

NumLeeches ==
    /\ ret' = [op |-> "numLeeches", value |-> numLeeches(m_nativeEntry)]
    /\ UNCHANGED <<m_nativeEntry, rhs>>

NumDownloaded ==
    /\ ret' = [op |-> "numDownloaded", value |-> numDownloaded(m_nativeEntry)]
    /\ UNCHANGED <<m_nativeEntry, rhs>>

SetTier(value) ==
    /\ m_nativeEntry' = setTier(m_nativeEntry, value)
    /\ ret' = [op |-> "setTier", arg |-> value]
    /\ UNCHANGED rhs

(* left == right, left being the entry under call. *)
OperatorEq ==
    /\ ret' = [op |-> "operator==", value |-> operatorEq(m_nativeEntry, rhs)]
    /\ UNCHANGED <<m_nativeEntry, rhs>>

(* Both entries hashed with one seed, as a QHash or QSet holding them does. *)
QHash(seed) ==
    /\ ret' = [op |-> "qHash", seed |-> seed,
               value |-> qHash(m_nativeEntry, seed), other |-> qHash(rhs, seed)]
    /\ UNCHANGED <<m_nativeEntry, rhs>>

Next ==
    \/ Url
    \/ Tier
    \/ Status
    \/ Messages
    \/ Endpoints
    \/ NumSeeds
    \/ NumLeeches
    \/ NumDownloaded
    \/ \E value \in Tiers : SetTier(value)
    \/ OperatorEq
    \/ \E seed \in Seeds : QHash(seed)

Spec == Init /\ [][Next]_vars

SpecStatus == InitStatus /\ [][Next]_vars

SpecMessages == InitMessages /\ [][Next]_vars

SpecCounters == InitCounters /\ [][Next]_vars

SpecEq == InitEq /\ [][Next]_vars
(***************************************************************************)
(* Properties.                                                             *)
(***************************************************************************)
eps == m_nativeEntry.endpoints

Negotiating(e) == e.updating

Functioning(e) == e.fails = 0

AnyNegotiating == \E i \in 1..Len(eps) : Negotiating(eps[i])

AllFailing == \A i \in 1..Len(eps) : ~Negotiating(eps[i]) /\ ~Functioning(eps[i])

(* The sequence seq reordered by the permutation p of its indices. *)
Reordered(seq, p) == [i \in 1..Len(seq) |-> seq[p[i]]]

IndexPermutations(n) == {p \in [1..n -> 1..n] : \A i, j \in 1..n : p[i] = p[j] => i = j}

(* C1: whenever the endpoint list holds a negotiating endpoint, status()    *)
(* returns Updating, whatever the other endpoints are and wherever they are. *)
C1_NegotiatingGivesUpdating ==
    (ret.op = "status" /\ AnyNegotiating) => ret.value = "Updating"

(* C2: verified, no endpoint negotiating and at least one functioning:     *)
(* status() returns Working, however many endpoints fail and wherever the  *)
(* functioning one is.                                                     *)
C2_VerifiedFunctioningGivesWorking ==
    ( /\ ret.op = "status"
      /\ m_nativeEntry.verified
      /\ ~AnyNegotiating
      /\ \E i \in 1..Len(eps) : Functioning(eps[i]) )
    => ret.value = "Working"

C2_Witness ==
    /\ ret.op = "status"
    /\ m_nativeEntry.verified
    /\ Len(eps) = 3
    /\ ~AnyNegotiating
    /\ ~Functioning(eps[1]) /\ ~Functioning(eps[2]) /\ Functioning(eps[3])

(* C3: status() returns NotContacted exactly when there is no endpoint, or *)
(* no endpoint is negotiating, none is functioning while verified is true, *)
(* and not all of them are failing; never Working while unverified.        *)
C3_NotContactedExactly ==
    ret.op = "status" =>
        /\ ret.value = "NotContacted" <=>
              \/ Len(eps) = 0
              \/ /\ Len(eps) > 0
                 /\ ~AnyNegotiating
                 /\ ~(m_nativeEntry.verified /\ \E i \in 1..Len(eps) : Functioning(eps[i]))
                 /\ ~AllFailing
        /\ ~m_nativeEntry.verified => ret.value # "Working"

C3_Witness ==
    /\ ret.op = "status"
    /\ ~m_nativeEntry.verified
    /\ Len(eps) >= 2
    /\ \A i \in 1..Len(eps) : Functioning(eps[i]) /\ ~Negotiating(eps[i])
    /\ ret.value = "NotContacted"

(* C4: status() returns NotWorking if and only if there is an endpoint and *)
(* every endpoint is neither negotiating nor functioning, for either value *)
(* of verified.                                                            *)
C4_NotWorkingIffUnanimous ==
    ret.op = "status" =>
        (ret.value = "NotWorking" <=> (Len(eps) > 0 /\ AllFailing))

C4_Witness ==
    /\ ret.op = "status"
    /\ Len(eps) >= 2
    /\ AllFailing
    /\ ret.value = "NotWorking"

(* C9: status() returns the same value for every ordering of the same      *)
(* endpoint states.                                                        *)
C9_StatusOrderIndependent ==
    ret.op = "status" =>
        \A p \in IndexPermutations(Len(eps)) :
            status([m_nativeEntry EXCEPT !.endpoints = Reordered(eps, p)]) = ret.value
(* The trimmed texts, in endpoint order. *)
Trimmed(texts) == [i \in 1..Len(texts) |-> trimmed(texts[i])]

Occurs(texts, s) == \E k \in 1..Len(texts) : texts[k] = s

FirstIndex(texts, s) ==
    CHOOSE k \in 1..Len(texts) : texts[k] = s /\ \A j \in 1..(k - 1) : texts[j] # s

NoEmpty(list) == \A i \in 1..Len(list) : Len(list[i]) > 0

NoDuplicate(list) == \A i, j \in 1..Len(list) : list[i] = list[j] => i = j

(* list holds strings of texts only, in the order of their first occurrence. *)
InFirstOccurrenceOrder(list, texts) ==
    /\ \A i \in 1..Len(list) : Occurs(texts, list[i])
    /\ \A i, j \in 1..Len(list) :
           i < j => FirstIndex(texts, list[i]) < FirstIndex(texts, list[j])

(* list is the non-empty strings of texts, each once, in first-occurrence order. *)
IsDeduplicated(list, texts) ==
    /\ NoEmpty(list)
    /\ NoDuplicate(list)
    /\ \A k \in 1..Len(texts) : Len(texts[k]) > 0 => contains(list, texts[k])
    /\ InFirstOccurrenceOrder(list, texts)

(* C5: messages() holds no empty string and no string twice, in the order  *)
(* of first occurrence of the trimmed strings over the endpoints in order. *)
C5_MessagesDistinctOrdered ==
    ret.op = "messages" =>
        /\ NoEmpty(ret.value)
        /\ NoDuplicate(ret.value)
        /\ \/ InFirstOccurrenceOrder(ret.value, Trimmed(messageTexts(m_nativeEntry)))
           \/ InFirstOccurrenceOrder(ret.value, Trimmed(lastErrorTexts(m_nativeEntry)))

C5_Witness ==
    /\ ret.op = "messages"
    /\ Len(eps) = 3
    /\ eps[1].last_error = <<"t">> /\ eps[2].last_error = <<"r">>
    /\ eps[3].last_error = <<" ", "t">>
    /\ \A i \in 1..3 : eps[i].message = <<>>
    /\ ret.value = << <<"t">>, <<"r">> >>

(* C6: messages() is the deduplicated trimmed message list whenever that   *)
(* list is non-empty or status() is not NotWorking, and the deduplicated   *)
(* trimmed lastErrorText list when it is empty and status() is NotWorking. *)
C6_MessagesTwoTier ==
    ret.op = "messages" =>
        LET msgs == Trimmed(messageTexts(m_nativeEntry))
            errs == Trimmed(lastErrorTexts(m_nativeEntry))
        IN  IF (\E k \in 1..Len(msgs) : Len(msgs[k]) > 0)
               \/ status(m_nativeEntry) # "NotWorking"
            THEN IsDeduplicated(ret.value, msgs)
            ELSE IsDeduplicated(ret.value, errs)

C6_Witness ==
    /\ ret.op = "messages"
    /\ m_nativeEntry.verified
    /\ Len(eps) = 2
    /\ \A i \in 1..2 : eps[i].fails > 0 /\ ~eps[i].updating /\ eps[i].message = <<>>
    /\ eps[1].last_error = <<"t">> /\ eps[2].last_error = <<"r">>
    /\ status(m_nativeEntry) = "NotWorking"
    /\ ret.value = << <<"t">>, <<"r">> >>

(* v is the largest of counts, the unknown -1 being the smallest value. *)
IsSentinelMax(v, counts) ==
    /\ v >= -1
    /\ v \in counts \cup {-1}
    /\ \A c \in counts : c <= v

(* C7: numSeeds(), numLeeches() and numDownloaded() each return the maximum *)
(* of their own counter over the endpoints, -1 when there is no endpoint    *)
(* or every endpoint is unknown; never a sum, never below -1.              *)
C7_CountersAreSentinelMax ==
    /\ ret.op = "numSeeds" =>
           IsSentinelMax(ret.value, {eps[i].scrape_complete : i \in 1..Len(eps)})
    /\ ret.op = "numLeeches" =>
           IsSentinelMax(ret.value, {eps[i].scrape_incomplete : i \in 1..Len(eps)})
    /\ ret.op = "numDownloaded" =>
           IsSentinelMax(ret.value, {eps[i].scrape_downloaded : i \in 1..Len(eps)})

C7_Witness ==
    /\ ret.op = "numSeeds"
    /\ Len(eps) = 3
    /\ eps[1].scrape_complete = -1 /\ eps[2].scrape_complete = 3
    /\ eps[3].scrape_complete = -1
    /\ eps[1].scrape_incomplete = 3
    /\ ret.value = 3

(* C8: two entries are equal iff their tiers are equal and their URLs are  *)
(* equal after normalization, and equal entries have the same qHash for    *)
(* the same seed, also when their URL strings differ literally.            *)
C8_EqualityAndHashAgree ==
    /\ ret.op = "operator==" =>
           (ret.value <=> /\ m_nativeEntry.tier = rhs.tier
                          /\ QUrl(m_nativeEntry.url) = QUrl(rhs.url))
    /\ (ret.op = "qHash" /\ operatorEq(m_nativeEntry, rhs)) => ret.value = ret.other

(* C10: no call turns verified from true to false, and setTier(value)      *)
(* changes the tier only: url, verified and the endpoint list stay, and so *)
(* do status(), messages() and the three counters.                         *)
C10_SetTierChangesTierOnly ==
    [][ /\ m_nativeEntry.verified => m_nativeEntry'.verified
        /\ ret'.op = "setTier" =>
              /\ m_nativeEntry'.tier = ret'.arg
              /\ m_nativeEntry'.url = m_nativeEntry.url
              /\ m_nativeEntry'.verified = m_nativeEntry.verified
              /\ m_nativeEntry'.endpoints = m_nativeEntry.endpoints
              /\ status(m_nativeEntry') = status(m_nativeEntry)
              /\ messages(m_nativeEntry') = messages(m_nativeEntry)
              /\ numSeeds(m_nativeEntry') = numSeeds(m_nativeEntry)
              /\ numLeeches(m_nativeEntry') = numLeeches(m_nativeEntry)
              /\ numDownloaded(m_nativeEntry') = numDownloaded(m_nativeEntry)
      ]_vars

C10_Witness ==
    /\ ret.op = "setTier"
    /\ ret.arg = 1
    /\ m_nativeEntry.tier = 1
    /\ m_nativeEntry.verified
    /\ Len(eps) >= 2
    /\ Len(messages(m_nativeEntry)) > 0
    /\ numSeeds(m_nativeEntry) > 0
====
